---- MODULE Spec2Model ----
(***************************************************************************)
(* lenso2: the /ws signaling endpoint, the /gemini audio endpoint and the  *)
(* transcription session functions, as a state machine.                    *)
(*                                                                         *)
(* Scheduling is the JavaScript event loop: a handler runs without         *)
(* preemption up to an await on a network call (fetch); its continuation   *)
(* is a separate step (TranscribeReturn, SummaryReturn).  An await on a    *)
(* promise that is already resolved resumes in the same task, so it is     *)
(* part of the same step.                                                  *)
(***************************************************************************)
EXTENDS Integers, Sequences, FiniteSets, TLC

\* ---- bounds of the model ------------------------------------------------
MaxPeers == 2          \* signaling connections ever opened
MaxMeetings == 2       \* rows of table meetings
MaxTranscripts == 2    \* rows of table transcriptions
MaxPending == 2        \* transcription gateway calls in flight
MaxBuffer == 4         \* chunks held in one room's audioBuffer
MaxTicks == 3          \* clock advances of a recorded stream (SpecSeg)
MaxStream == 5         \* chunks of a recorded stream (SpecSeg)
TickMs == 250          \* one clock advance of a recorded stream, in ms
LongTickMs == 600      \* one clock advance of Spec, in ms
MaxLongTicks == 1      \* clock advances of Spec
MaxLogTicks == 2       \* clock advances of SpecLog
Epoch == 1000          \* Date.now() at process start

\* ---- program constants --------------------------------------------------
PAUSE_THRESHOLD_MS == 500
MIN_BUFFER_SIZE == 3
SPEECH_THRESHOLD_DB == 0 - 40
INT16_SCALE == 32768

PeerIds == 1..MaxPeers
RoomIds == {"default", "r1"}
\* data.roomId of a message / the roomId query parameter: "" stands for a
\* missing (falsy) value.
RoomArgs == {"", "r1"}
\* the roomId query parameter of the /gemini connections of Spec: audio is
\* streamed for the default room
AudioRoomArgs == {""}

\* ---- audio chunks: sequences of bytes (Uint8Array) ----------------------
Loud1 == <<72, 1>>       \* one sample, 328
Loud2 == <<24, 252>>     \* one sample, -1000
Quiet == <<71, 1>>       \* one sample, 327
Zero  == <<0, 0>>        \* one sample, 0
Empty == <<>>            \* no samples
Odd   == <<1>>           \* not a whole number of samples
AudioChunks == {Loud1, Loud2, Quiet, Zero, Empty, Odd}

\* ---- texts: sequences of characters -------------------------------------
NoText == <<>>
Failure == <<"#fail">>   \* the gateway call failed or had no usable shape
GatewayTexts == {NoText, <<" ">>, <<" ", "a", " ">>}
SummaryTexts == {NoText, <<"s">>}

VARIABLES
    now,            \* Date.now()
    conn,           \* per signaling connection: "idle" | "open" | "closed"
    peers,          \* the peers Map, in insertion order: <<[id, roomId]>>
    rooms,          \* the rooms Map: room id -> Room (exists = FALSE: no entry)
    meetings,       \* table meetings; id = index
    transcriptions, \* table transcriptions, in rowid order
    summaries,      \* table meeting_summaries
    pendingT,       \* /gemini handlers suspended on transcribeAudioWithGemini
    pendingS,       \* handlers suspended on the fetch of generateMeetingSummary
    sent,           \* what the last step sent: <<message>>
    last,           \* the last step: handler, arguments and result
    tracing,        \* whether the chunk stream and the notices are recorded
    hist,           \* recorded stream: chunks processed while Active
    told,           \* recorded notices: <<peer, meeting id>> for every
                    \* transcription-started sent
    dead            \* the open connections whose socket rejects a send

vars == <<now, conn, peers, rooms, meetings, transcriptions, summaries,
          pendingT, pendingS, sent, last, tracing, hist, told, dead>>

\* ---- helpers ------------------------------------------------------------
RECURSIVE SeqToSet(_)
SeqToSet(s) == IF s = <<>> THEN {} ELSE {Head(s)} \cup SeqToSet(Tail(s))

RECURSIVE FilterSeq(_, _)
\* Array.prototype.filter / forEach with an if, for peers of one room
FilterSeq(s, rid) ==
    IF s = <<>> THEN <<>>
    ELSE IF Head(s).roomId = rid THEN <<Head(s)>> \o FilterSeq(Tail(s), rid)
         ELSE FilterSeq(Tail(s), rid)

\* x || "default"
OrDefault(x) == IF x = "" THEN "default" ELSE x

PeerIdSeq(ps) == [i \in 1..Len(ps) |-> ps[i].id]
HasPeer(ps, p) == \E i \in 1..Len(ps) : ps[i].id = p
\* peers.get(p)?.roomId ("" when undefined)
PeerRoom(ps, p) ==
    IF HasPeer(ps, p) THEN (CHOOSE e \in SeqToSet(ps) : e.id = p).roomId ELSE ""
\* peers.set(p, peer): a new key goes last, an existing key keeps its place
PeersSet(ps, p, rid) ==
    IF HasPeer(ps, p)
    THEN [i \in 1..Len(ps) |-> IF ps[i].id = p THEN [id |-> p, roomId |-> rid] ELSE ps[i]]
    ELSE Append(ps, [id |-> p, roomId |-> rid])
\* onClose without peers.delete(peerId)
PeersDeleteKeep(ps, p) == ps
RECURSIVE PeersDelete(_, _)
PeersDelete(ps, p) ==
    IF ps = <<>> THEN <<>>
    ELSE IF Head(ps).id = p THEN Tail(ps)
         ELSE <<Head(ps)>> \o PeersDelete(Tail(ps), p)
\* Array.from(peers.values()).filter(p => p.roomId === roomId).length
RoomCount(ps, rid) == Len(FilterSeq(ps, rid))

\* ---- messages -----------------------------------------------------------
Msg(to, type, id, list, meetingId, text) ==
    [to |-> to, type |-> type, id |-> id, peers |-> list,
     meetingId |-> meetingId, text |-> text]
Welcome(p) == Msg(p, "welcome", p, <<>>, 0, NoText)
ExistingPeers(p, list) == Msg(p, "existing-peers", 0, list, 0, NoText)
PeerJoined(to, p) == Msg(to, "peer-joined", p, <<>>, 0, NoText)
PeerLeft(to, p) == Msg(to, "peer-left", p, <<>>, 0, NoText)
TranscriptionStarted(to, m) == Msg(to, "transcription-started", 0, <<>>, m, NoText)
TranscriptionStopped(to, s) == Msg(to, "transcription-stopped", 0, <<>>, 0, s)
Transcription(to, t) == Msg(to, "transcription", 0, <<>>, 0, t)

\* ws.send of the messages ms in order, dd being the connections whose
\* socket rejects a send. What a rejected send does is decided by the
\* WSContext of hono/bun, outside this source: it returns without delivering
\* or it throws, and no handler of /ws catches it.
SendOutcomes(ms, dd) ==
    IF \E i \in 1..Len(ms) : ms[i].to \in dd THEN {"dropped", "throws"} ELSE {"sent"}
FirstRejected(ms, dd) ==
    CHOOSE i \in 1..Len(ms) : ms[i].to \in dd /\ \A j \in 1..(i - 1) : ms[j].to \notin dd
RECURSIVE Accepted(_, _)
Accepted(ms, dd) ==
    IF ms = <<>> THEN <<>>
    ELSE IF Head(ms).to \in dd THEN Accepted(Tail(ms), dd)
         ELSE <<Head(ms)>> \o Accepted(Tail(ms), dd)
\* the messages that reach their recipients
Delivered(ms, dd, outcome) ==
    IF outcome = "throws" THEN SubSeq(ms, 1, FirstRejected(ms, dd) - 1)
    ELSE Accepted(ms, dd)

\* the step record: the handler, the connection it ran for and the room that
\* connection was joined to ("" for none), the room, chunk, result and text
\* the handler worked with, and the gateway's response it resumed with
\* (for a summary that came back, from is the handler that awaited it)
Step(op, peer, from, room, chunk, result, text, resp) ==
    [op |-> op, peer |-> peer, from |-> from, room |-> room, chunk |-> chunk,
     result |-> result, text |-> text, resp |-> resp]

\* ---- speech detection ---------------------------------------------------
\* new Int16Array(audioData.buffer): little-endian signed 16-bit samples
ToInt16(lo, hi) ==
    LET u == lo + 256 * hi IN IF u >= INT16_SCALE THEN u - 2 * INT16_SCALE ELSE u
Samples(chunk) == [i \in 1..(Len(chunk) \div 2) |-> ToInt16(chunk[2*i - 1], chunk[2*i])]
\* the Int16Array constructor throws a RangeError on an odd byte length
Int16Throws(chunk) == Len(chunk) % 2 # 0
RECURSIVE SumSquares(_)
SumSquares(s) == IF s = <<>> THEN 0 ELSE Head(s) * Head(s) + SumSquares(Tail(s))
RECURSIVE Pow10(_)
Pow10(n) == IF n = 0 THEN 1 ELSE 10 * Pow10(n - 1)
\* the detector with a comparison that is true at the threshold and for no
\* samples
detectSpeechGeq(chunk) ==
    LET s == Samples(chunk)
        n == Len(s)
    IN  SumSquares(s) * (Pow10((0 - SPEECH_THRESHOLD_DB) \div 10) \div 16)
            >= n * ((INT16_SCALE * INT16_SCALE) \div 16)
\* 20*log10(sqrt(sum / n) / 32768 ...) > SPEECH_THRESHOLD_DB, in integers:
\*   sum / (n * 32768^2) > 10^(SPEECH_THRESHOLD_DB / 10)
\*   sum * 10^(-SPEECH_THRESHOLD_DB / 10) > n * 32768^2
\* (both sides divided by 16 to stay within 32-bit integers).
\* With no samples sum / n is NaN and every comparison with NaN is false.
detectSpeech(chunk) ==
    LET s == Samples(chunk)
        n == Len(s)
    IN  /\ n > 0
        /\ SumSquares(s) * (Pow10((0 - SPEECH_THRESHOLD_DB) \div 10) \div 16)
             > n * ((INT16_SCALE * INT16_SCALE) \div 16)

\* ---- texts --------------------------------------------------------------
RECURSIVE TrimLeft(_)
TrimLeft(t) == IF t # <<>> /\ Head(t) = " " THEN TrimLeft(Tail(t)) ELSE t
RECURSIVE TrimRight(_)
TrimRight(t) ==
    IF t # <<>> /\ t[Len(t)] = " " THEN TrimRight(SubSeq(t, 1, Len(t) - 1)) ELSE t
\* String.prototype.trim
Trim(t) == TrimRight(TrimLeft(t))
\* transcribeAudioWithGemini, from the gateway's response: the text of the
\* first candidate trimmed, "" for an empty text, an unknown shape or an error
transcribeAudioWithGemini(resp) ==
    IF resp = Failure \/ resp = NoText THEN NoText ELSE Trim(resp)
RECURSIVE JoinTexts(_)
\* transcriptions.join('\n\n')
JoinTexts(ts) ==
    IF ts = <<>> THEN NoText
    ELSE IF Len(ts) = 1 THEN Head(ts)
         ELSE Head(ts) \o <<"\n\n">> \o JoinTexts(Tail(ts))

\* ---- persistence (bun:sqlite) --------------------------------------------
\* a start that takes the latest row back into use instead of inserting one
createMeetingReuse(ms, roomId) ==
    IF ms = <<>> THEN <<[room_id |-> roomId, ended |-> FALSE, participant_count |-> 0]>>
    ELSE [ms EXCEPT ![Len(ms)] = [room_id |-> roomId, ended |-> FALSE, participant_count |-> 0]]
\* createMeeting: INSERT INTO meetings; the new row's id is lastInsertRowid.
\* ended stands for "ended_at IS NOT NULL".
createMeeting(ms, roomId) ==
    Append(ms, [room_id |-> roomId, ended |-> FALSE, participant_count |-> 0])
\* endMeeting: UPDATE meetings SET ended_at, participant_count WHERE id
endMeeting(ms, meetingId, participantCount) ==
    [i \in 1..Len(ms) |->
        IF i = meetingId
        THEN [ms[i] EXCEPT !.ended = TRUE, !.participant_count = participantCount]
        ELSE ms[i]]
\* saveTranscription: INSERT INTO transcriptions
saveTranscription(ts, meetingId, text, t) ==
    Append(ts, [meeting_id |-> meetingId, text |-> text, created_at |-> t])
RECURSIVE RowsOf(_, _)
RowsOf(ts, meetingId) ==
    IF ts = <<>> THEN <<>>
    ELSE IF Head(ts).meeting_id = meetingId
         THEN <<Head(ts)>> \o RowsOf(Tail(ts), meetingId)
         ELSE RowsOf(Tail(ts), meetingId)
\* the orders of n rows
Perms(n) == {f \in [1..n -> 1..n] : \A i, j \in 1..n : f[i] = f[j] => i = j}
\* ORDER BY created_at ASC: the results SQL allows are the orders of the rows
\* in which created_at never decreases; the order of rows of equal
\* created_at is left open
OrderByCreatedAt(rows) ==
    LET n == Len(rows)
        sorted == {f \in Perms(n) :
                      \A i \in 1..(n - 1) : rows[f[i]].created_at <= rows[f[i + 1]].created_at}
    IN  {[i \in 1..n |-> rows[f[i]]] : f \in sorted}
\* getTranscriptions: SELECT transcription_text WHERE meeting_id ORDER BY
\* created_at ASC, as the set of lists it may return
getTranscriptions(ts, meetingId) ==
    {[i \in 1..Len(o) |-> o[i].text] : o \in OrderByCreatedAt(RowsOf(ts, meetingId))}
HasSummary(ss, meetingId) == \E i \in 1..Len(ss) : ss[i].meeting_id = meetingId
\* saveSummary: INSERT INTO meeting_summaries
saveSummary(ss, meetingId, text) ==
    Append(ss, [meeting_id |-> meetingId, text |-> text])

\* ---- rooms --------------------------------------------------------------
NoRoom ==
    [exists |-> FALSE, transcriptionActive |-> FALSE, meetingId |-> 0,
     audioBuffer |-> <<>>, lastSpeechTime |-> 0, hasSpeech |-> FALSE]
\* the Room literal of startTranscription (lastProcessedTime is written and
\* never read: it is left out of the record)
NewRoom == [NoRoom EXCEPT !.exists = TRUE]

\* startTranscription without its check of transcriptionActive
CanStartAlways(room) == TRUE
\* startTranscription that refuses while a gateway call is in flight
CanStartNoCallPending(room) ==
    ~room.transcriptionActive /\ pendingT = <<>> /\ pendingS = <<>>
\* startTranscription: if (!room.transcriptionActive)
CanStart(room) == ~room.transcriptionActive
\* stopTranscription without its check of transcriptionActive
CanStopLoose(room) == room.exists /\ room.meetingId # 0
\* stopTranscription, handleRoomEmpty: if (room && room.transcriptionActive && room.meetingId)
CanStop(room) == room.exists /\ room.transcriptionActive /\ room.meetingId # 0

\* startTranscription that leaves the segmenter as the last session left it
startTranscriptionKeepsBuffer(roomId) ==
    LET room == IF rooms[roomId].exists THEN rooms[roomId] ELSE NewRoom
    IN  IF CanStart(room)
        THEN [rooms |-> [rooms EXCEPT ![roomId] =
                            [room EXCEPT !.transcriptionActive = TRUE,
                                         !.meetingId = Len(meetings) + 1]],
              meetings |-> createMeeting(meetings, roomId),
              result |-> Len(meetings) + 1]
        ELSE [rooms |-> [rooms EXCEPT ![roomId] = room],
              meetings |-> meetings,
              result |-> 0]
\* startTranscription(roomId): the rooms map, the meetings table and the
\* result (0 for null, else the meeting id) it leaves
startTranscription(roomId) ==
    LET room == IF rooms[roomId].exists THEN rooms[roomId] ELSE NewRoom
    IN  IF CanStart(room)
        THEN [rooms |-> [rooms EXCEPT ![roomId] =
                            [room EXCEPT !.transcriptionActive = TRUE,
                                         !.meetingId = Len(meetings) + 1,
                                         !.audioBuffer = <<>>,
                                         !.lastSpeechTime = 0,
                                         !.hasSpeech = FALSE]],
              meetings |-> createMeeting(meetings, roomId),
              result |-> Len(meetings) + 1]
        ELSE [rooms |-> [rooms EXCEPT ![roomId] = room],
              meetings |-> meetings,
              result |-> 0]

\* stopTranscription that leaves the room and the meeting as they are until
\* the summary is back
endSessionLate(roomId, participantCount) ==
    [rooms |-> rooms, meetings |-> meetings]
\* stopTranscription that sets every room inactive
endSessionEveryRoom(roomId, participantCount) ==
    [rooms |-> [r \in RoomIds |-> [rooms[r] EXCEPT !.transcriptionActive = FALSE]],
     meetings |-> endMeeting(meetings, rooms[roomId].meetingId, participantCount)]
\* stopTranscription / handleRoomEmpty up to the call of
\* generateMeetingSummary: the room is set inactive and the meeting ended
endSession(roomId, participantCount) ==
    [rooms |-> [rooms EXCEPT ![roomId].transcriptionActive = FALSE],
     meetings |-> endMeeting(meetings, rooms[roomId].meetingId, participantCount)]

\* generateMeetingSummary up to its fetch: "" without a request when the
\* meeting has no transcriptions, else the request for the joined transcript
\* (NeedsSummaryAlways: without the check of transcriptions.length)
NeedsSummaryAlways(meetingId) == TRUE
NeedsSummary(meetingId) == <<>> \notin getTranscriptions(transcriptions, meetingId)
SummaryCall(meetingId, roomId, origin, fetched) ==
    [meetingId |-> meetingId, roomId |-> roomId, origin |-> origin,
     transcript |-> JoinTexts(fetched)]

\* generateMeetingSummary whose catch rethrows what the fetch threw
generateMeetingSummaryRethrows(resp, ss, meetingId) ==
    LET saved == resp # Failure /\ resp # NoText /\ ~HasSummary(ss, meetingId)
    IN  [saved |-> saved,
         summary |-> IF saved THEN resp ELSE NoText,
         threw |-> resp = Failure]
\* generateMeetingSummary after its fetch, answered with resp: the summary is
\* saved and returned when the response carries one; a failed fetch, an
\* unexpected response and a failed INSERT (meeting_id is UNIQUE) all return ""
generateMeetingSummary(resp, ss, meetingId) ==
    LET saved == resp # Failure /\ resp # NoText /\ ~HasSummary(ss, meetingId)
    IN  [saved |-> saved,
         summary |-> IF saved THEN resp ELSE NoText,
         threw |-> FALSE]

\* a broadcast without the check of peer.roomId
RoomRecipientsUnfiltered(ps, roomId) == PeerIdSeq(ps)
\* the recipients of a room-scoped broadcast:
\* peers.forEach(peer => { if (peer.roomId === roomId) ... })
RoomRecipients(ps, roomId) == PeerIdSeq(FilterSeq(ps, roomId))
\* the recipients of peer-joined and peer-left: peers.forEach(p => p.ws.send(...))
AllRecipients(ps) == PeerIdSeq(ps)

\* ---- the speech segmenter (/gemini onMessage) ----------------------------
\* a frame that is neither an ArrayBuffer nor a Uint8Array (no byte is -1)
TextFrame == <<0 - 1>>
AudioInputs == AudioChunks \cup {TextFrame}
\* the frames the two specifications draw from
SpecChunks == {Loud1, Zero}
StreamChunks == {Loud1, Loud2, Zero, Empty}
\* the boundary rule with || for &&
ShouldEmitEither(room, t) ==
    \/ t - room.lastSpeechTime > PAUSE_THRESHOLD_MS
    \/ Len(room.audioBuffer) >= MIN_BUFFER_SIZE
\* if (timeSinceLastSpeech > PAUSE_THRESHOLD_MS && room.audioBuffer.length >= MIN_BUFFER_SIZE)
ShouldEmit(room, t) ==
    /\ t - room.lastSpeechTime > PAUSE_THRESHOLD_MS
    /\ Len(room.audioBuffer) >= MIN_BUFFER_SIZE
RECURSIVE CombineAudioReversed(_)
\* the chunks copied from the end of the output backwards
CombineAudioReversed(buf) ==
    IF buf = <<>> THEN <<>> ELSE CombineAudioReversed(Tail(buf)) \o Head(buf)
RECURSIVE CombineAudio(_)
\* combinedAudio: every chunk of the buffer copied at its offset
CombineAudio(buf) == IF buf = <<>> THEN <<>> ELSE Head(buf) \o CombineAudio(Tail(buf))
\* the handler without its early return for a room that is not Active
ChunkBranchNoActiveGuard(room, chunk, t) ==
    IF chunk = TextFrame THEN "not-binary"
    ELSE IF Int16Throws(chunk) THEN "throws"
    ELSE IF detectSpeech(chunk) THEN "speech"
    ELSE IF room.hasSpeech /\ Len(room.audioBuffer) > 0
         THEN (IF ShouldEmit(room, t) THEN "emit" ELSE "hold")
         ELSE "idle"
\* the handler without the check of hasSpeech and of the buffer, emitting on
\* the pause alone
ChunkBranchPauseOnly(room, chunk, t) ==
    IF ~room.exists \/ ~room.transcriptionActive THEN "inactive"
    ELSE IF chunk = TextFrame THEN "not-binary"
    ELSE IF Int16Throws(chunk) THEN "throws"
    ELSE IF detectSpeech(chunk) THEN "speech"
    ELSE IF t - room.lastSpeechTime > PAUSE_THRESHOLD_MS THEN "emit" ELSE "hold"
\* the branch the handler takes for a chunk
ChunkBranch(room, chunk, t) ==
    IF ~room.exists \/ ~room.transcriptionActive THEN "inactive"
    ELSE IF chunk = TextFrame THEN "not-binary"
    ELSE IF Int16Throws(chunk) THEN "throws"
    ELSE IF detectSpeech(chunk) THEN "speech"
    ELSE IF room.hasSpeech /\ Len(room.audioBuffer) > 0
         THEN (IF ShouldEmit(room, t) THEN "emit" ELSE "hold")
         ELSE "idle"

\* the check of the transcription without its test for an empty text
KeepTranscriptionAlways(transcription, room) == room.meetingId # 0
\* the check of the transcription with a test of transcriptionActive added
KeepTranscriptionWhileActive(transcription, room) ==
    /\ transcription # NoText /\ Trim(transcription) # NoText /\ room.meetingId # 0
    /\ room.transcriptionActive
\* if (transcription && transcription.trim().length > 0 && room.meetingId)
KeepTranscription(transcription, room) ==
    transcription # NoText /\ Trim(transcription) # NoText /\ room.meetingId # 0

\* the emitting branch with its reset moved behind the await
EmitResetLate(room) == room
\* the emitting branch that resets the flag and keeps the buffer
EmitResetFlagOnly(room) == [room EXCEPT !.hasSpeech = FALSE]
\* room.audioBuffer = []; room.hasSpeech = false, before the await
EmitReset(room) == [room EXCEPT !.audioBuffer = <<>>, !.hasSpeech = FALSE]

RemoveAt(s, i) == SubSeq(s, 1, i - 1) \o SubSeq(s, i + 1, Len(s))

\* ---- initial state ------------------------------------------------------
InitBase ==
    /\ now = Epoch
    /\ conn = [p \in PeerIds |-> "idle"]
    /\ peers = <<>>
    /\ rooms = [r \in RoomIds |-> NoRoom]
    /\ meetings = <<>>
    /\ transcriptions = <<>>
    /\ summaries = <<>>
    /\ pendingT = <<>>
    /\ pendingS = <<>>
    /\ sent = <<>>
    /\ last = Step("init", 0, "", "", <<>>, 0, NoText, NoText)
    /\ hist = <<>>
    /\ told = {}
    /\ dead = {}
Init == InitBase /\ tracing = FALSE
InitSeg == InitBase /\ tracing = TRUE

\* ---- steps --------------------------------------------------------------
\* Date.now() advances by d, up to Epoch + limit
Tick(d, limit) ==
    /\ now + d <= Epoch + limit
    /\ now' = now + d
    /\ sent' = <<>>
    /\ last' = Step("tick", 0, "", "", <<>>, 0, NoText, NoText)
    /\ UNCHANGED <<conn, peers, rooms, meetings, transcriptions, summaries,
                   pendingT, pendingS, tracing, hist, told, dead>>

\* /ws onOpen; connections are numbered in the order they open
WsOnOpen(p) ==
    /\ conn[p] = "idle"
    /\ \A q \in PeerIds : q < p => conn[q] # "idle"
    /\ conn' = [conn EXCEPT ![p] = "open"]
    /\ sent' = <<Welcome(p)>>
    /\ last' = Step("open", p, "", "", <<>>, 0, NoText, NoText)
    /\ UNCHANGED <<now, peers, rooms, meetings, transcriptions, summaries,
                   pendingT, pendingS, tracing, hist, told, dead>>

\* /ws onMessage, type "join"
WsJoin(p, rid) ==
    LET roomId == OrDefault(rid)
        existingPeers == PeerIdSeq(peers)
        notified == AllRecipients(peers)
        ms == (IF Len(existingPeers) > 0
               THEN <<ExistingPeers(p, existingPeers)>> ELSE <<>>)
              \o [i \in 1..Len(notified) |-> PeerJoined(notified[i], p)]
    IN  /\ conn[p] = "open"
        /\ \E outcome \in SendOutcomes(ms, dead) :
              /\ sent' = Delivered(ms, dead, outcome)
              \* peers.set comes after the sends
              /\ peers' = IF outcome = "throws" THEN peers ELSE PeersSet(peers, p, roomId)
        /\ last' = Step("join", p, PeerRoom(peers, p), roomId, <<>>, 0, NoText, NoText)
        /\ UNCHANGED <<now, conn, rooms, meetings, transcriptions, summaries,
                       pendingT, pendingS, tracing, hist, told, dead>>

\* the payloads of /ws onMessage that are not a well-formed message: a text
\* JSON.parse rejects, a type no branch handles, and a join that carries
\* nothing but its type
MalformedKinds == {"unparsable", "unknown", "missing"}
\* /ws onMessage for such a payload: JSON.parse throws before any branch runs
\* (what becomes of the rejected promise is decided outside this source: the
\* connection is left as it is), no branch matches an unknown type, and the
\* join branch runs with roomId "default", sessionId undefined and no tracks
WsMalformed(p, kind) ==
    LET roomId == OrDefault("")
        existingPeers == PeerIdSeq(peers)
        notified == AllRecipients(peers)
        ms == (IF Len(existingPeers) > 0
               THEN <<ExistingPeers(p, existingPeers)>> ELSE <<>>)
              \o [i \in 1..Len(notified) |-> PeerJoined(notified[i], p)]
    IN  /\ conn[p] = "open"
        /\ IF kind = "missing"
           THEN \E outcome \in SendOutcomes(ms, dead) :
                   /\ sent' = Delivered(ms, dead, outcome)
                   /\ peers' = IF outcome = "throws" THEN peers
                               ELSE PeersSet(peers, p, roomId)
           ELSE /\ sent' = <<>>
                /\ peers' = peers
        /\ last' = Step("malformed", p, PeerRoom(peers, p),
                        IF kind = "missing" THEN roomId ELSE "", <<>>, 0, <<kind>>, NoText)
        /\ UNCHANGED <<now, conn, rooms, meetings, transcriptions, summaries,
                       pendingT, pendingS, tracing, hist, told, dead>>

\* /ws onMessage, type "start-transcription"
WsStart(p, rid) ==
    LET roomId == OrDefault(rid)
        r == startTranscription(roomId)
        to == RoomRecipients(peers, roomId)
        ms == IF r.result # 0
              THEN [i \in 1..Len(to) |-> TranscriptionStarted(to[i], r.result)]
              ELSE <<>>
    IN  /\ conn[p] = "open"
        /\ Len(r.meetings) <= MaxMeetings
        /\ rooms' = r.rooms
        /\ meetings' = r.meetings
        /\ \E outcome \in SendOutcomes(ms, dead) :
              /\ sent' = Delivered(ms, dead, outcome)
              /\ told' = IF tracing
                         THEN told \cup {<<sent'[i].to, r.result>> : i \in 1..Len(sent')}
                         ELSE told
        /\ last' = Step("start", p, PeerRoom(peers, p), roomId, <<>>, r.result, NoText, NoText)
        /\ hist' = IF tracing /\ r.result # 0 THEN <<>> ELSE hist
        /\ UNCHANGED <<now, conn, peers, transcriptions, summaries,
                       pendingT, pendingS, tracing, dead>>

\* /ws onMessage, type "stop-transcription", up to the fetch of the summary
\* (result 0: stopped = false; 1: stopped = true; 2: suspended on the fetch)
WsStop(p, rid) ==
    LET roomId == OrDefault(rid)
        participantCount == RoomCount(peers, roomId)
        meetingId == rooms[roomId].meetingId
        e == endSession(roomId, participantCount)
        to == RoomRecipients(peers, roomId)
        ms == [i \in 1..Len(to) |-> TranscriptionStopped(to[i], NoText)]
    IN  /\ conn[p] = "open"
        /\ IF CanStop(rooms[roomId])
           THEN /\ rooms' = e.rooms
                /\ meetings' = e.meetings
                /\ IF NeedsSummary(meetingId)
                   THEN /\ \E fetched \in getTranscriptions(transcriptions, meetingId) :
                              pendingS' = Append(pendingS,
                                              SummaryCall(meetingId, roomId, "stop", fetched))
                        /\ sent' = <<>>
                        /\ last' = Step("stop", p, PeerRoom(peers, p), roomId, <<>>, 2, NoText, NoText)
                   ELSE /\ pendingS' = pendingS
                        /\ \E outcome \in SendOutcomes(ms, dead) :
                              sent' = Delivered(ms, dead, outcome)
                        /\ last' = Step("stop", p, PeerRoom(peers, p), roomId, <<>>, 1, NoText, NoText)
           ELSE /\ UNCHANGED <<rooms, meetings, pendingS>>
                /\ sent' = <<>>
                /\ last' = Step("stop", p, PeerRoom(peers, p), roomId, <<>>, 0, NoText, NoText)
        /\ UNCHANGED <<now, conn, peers, transcriptions, summaries, pendingT,
                       tracing, hist, told, dead>>

\* /ws onClose, up to the fetch of the summary
WsOnClose(p) ==
    LET roomId == OrDefault(PeerRoom(peers, p))
        remaining == PeersDelete(peers, p)
        to == AllRecipients(remaining)
        meetingId == rooms[roomId].meetingId
        e == endSession(roomId, 1)
        ms == [i \in 1..Len(to) |-> PeerLeft(to[i], p)]
    IN  /\ conn[p] = "open"
        /\ conn' = [conn EXCEPT ![p] = "closed"]
        /\ dead' = dead \ {p}
        /\ peers' = remaining
        /\ \E outcome \in SendOutcomes(ms, dead \ {p}) :
              /\ sent' = Delivered(ms, dead \ {p}, outcome)
              \* the check of the room comes after the sends
              /\ IF /\ outcome # "throws"
                    /\ RoomCount(remaining, roomId) = 0
                    /\ CanStop(rooms[roomId])
                 THEN /\ rooms' = e.rooms
                      /\ meetings' = e.meetings
                      /\ IF NeedsSummary(meetingId)
                         THEN \E fetched \in getTranscriptions(transcriptions, meetingId) :
                                  pendingS' = Append(pendingS,
                                                  SummaryCall(meetingId, roomId, "empty", fetched))
                         ELSE pendingS' = pendingS
                      /\ last' = Step("close", p, PeerRoom(peers, p), roomId, <<>>,
                                      1, NoText, NoText)
                 ELSE /\ UNCHANGED <<rooms, meetings, pendingS>>
                      /\ last' = Step("close", p, PeerRoom(peers, p), roomId, <<>>,
                                      0, NoText, NoText)
        /\ UNCHANGED <<now, transcriptions, summaries, pendingT, tracing, hist, told>>

\* the socket of an open connection starts to reject sends (its close has
\* not been processed yet)
WsBreak(p) ==
    /\ conn[p] = "open"
    /\ p \notin dead
    /\ dead' = dead \cup {p}
    /\ sent' = <<>>
    /\ last' = Step("break", p, PeerRoom(peers, p), "", <<>>, 0, NoText, NoText)
    /\ UNCHANGED <<now, conn, peers, rooms, meetings, transcriptions, summaries,
                   pendingT, pendingS, tracing, hist, told>>

\* /gemini onMessage, up to the await of transcribeAudioWithGemini
\* (result 1: an utterance was emitted; the call in flight is recorded with
\* the room's meetingId at that moment, which the handler itself does not keep)
GeminiOnMessage(rid, chunk) ==
    LET roomId == OrDefault(rid)
        room == rooms[roomId]
        branch == ChunkBranch(room, chunk, now)
    IN  /\ tracing /\ branch # "inactive" => Len(hist) < MaxStream
        /\ hist' = IF tracing /\ branch # "inactive"
                   THEN Append(hist, [chunk |-> chunk, t |-> now])
                   ELSE hist
        /\ sent' = <<>>
        /\ last' = Step("audio", 0, "", roomId, chunk,
                        IF branch = "emit" THEN 1 ELSE 0, NoText, NoText)
        /\ IF branch = "speech"
           THEN /\ Len(room.audioBuffer) < MaxBuffer
                /\ rooms' = [rooms EXCEPT ![roomId] =
                                [room EXCEPT !.audioBuffer = Append(room.audioBuffer, chunk),
                                             !.lastSpeechTime = now,
                                             !.hasSpeech = TRUE]]
                /\ pendingT' = pendingT
           ELSE IF branch = "emit"
           THEN /\ Len(pendingT) < MaxPending
                /\ rooms' = [rooms EXCEPT ![roomId] = EmitReset(room)]
                /\ pendingT' = Append(pendingT,
                                  [roomId |-> roomId,
                                   audio |-> CombineAudio(room.audioBuffer),
                                   meetingId |-> room.meetingId])
           ELSE UNCHANGED <<rooms, pendingT>>
        /\ UNCHANGED <<now, conn, peers, meetings, transcriptions, summaries,
                       pendingS, tracing, told, dead>>

\* /gemini onMessage after the await: the gateway answered call i with resp
\* (result 1: a transcription row was saved)
TranscribeReturn(i, resp) ==
    LET call == pendingT[i]
        room == rooms[call.roomId]
        transcription == transcribeAudioWithGemini(resp)
        keep == KeepTranscription(transcription, room)
        to == RoomRecipients(peers, call.roomId)
        ms == [j \in 1..Len(to) |-> Transcription(to[j], transcription)]
    IN  /\ pendingT' = RemoveAt(pendingT, i)
        /\ IF keep
           THEN /\ Len(transcriptions) < MaxTranscripts
                /\ transcriptions' =
                       saveTranscription(transcriptions, room.meetingId, transcription, now)
                \* a send that throws is caught by the handler's try
                /\ \E outcome \in SendOutcomes(ms, dead) :
                      sent' = Delivered(ms, dead, outcome)
           ELSE /\ transcriptions' = transcriptions
                /\ sent' = <<>>
        /\ last' = Step("transcribed", 0, "", call.roomId, call.audio,
                        IF keep THEN 1 ELSE 0, transcription, resp)
        /\ UNCHANGED <<now, conn, peers, rooms, meetings, summaries, pendingS,
                       tracing, hist, told, dead>>

\* generateMeetingSummary after its fetch, and the rest of the handler that
\* awaited it: the gateway answered call i with resp
\* (result 1: a summary row was saved)
SummaryReturn(i, resp) ==
    LET call == pendingS[i]
        g == generateMeetingSummary(resp, summaries, call.meetingId)
        to == RoomRecipients(peers, call.roomId)
        ms == IF call.origin = "stop" /\ ~g.threw
              THEN [j \in 1..Len(to) |-> TranscriptionStopped(to[j], g.summary)]
              ELSE <<>>
    IN  /\ pendingS' = RemoveAt(pendingS, i)
        /\ summaries' = IF g.saved
                        THEN saveSummary(summaries, call.meetingId, resp)
                        ELSE summaries
        /\ \E outcome \in SendOutcomes(ms, dead) :
              sent' = Delivered(ms, dead, outcome)
        /\ last' = Step("summarized", 0, call.origin, call.roomId, <<>>,
                        IF g.saved THEN 1 ELSE 0, g.summary, resp)
        /\ UNCHANGED <<now, conn, peers, rooms, meetings, transcriptions,
                       pendingT, tracing, hist, told, dead>>

Next ==
    \/ Tick(LongTickMs, MaxLongTicks * LongTickMs)
    \/ \E p \in PeerIds : WsOnOpen(p)
    \/ \E p \in PeerIds, rid \in RoomArgs : WsJoin(p, rid)
    \/ \E p \in PeerIds, rid \in RoomArgs : WsStart(p, rid)
    \/ \E p \in PeerIds, rid \in RoomArgs : WsStop(p, rid)
    \/ \E p \in PeerIds : WsOnClose(p)
    \/ \E rid \in AudioRoomArgs, chunk \in SpecChunks : GeminiOnMessage(rid, chunk)
    \/ \E i \in 1..Len(pendingT), resp \in GatewayTexts \cup {Failure} :
           TranscribeReturn(i, resp)
    \/ \E i \in 1..Len(pendingS), resp \in SummaryTexts \cup {Failure} :
           SummaryReturn(i, resp)

Spec == Init /\ [][Next]_vars

\* one room's chunk stream, recorded: a connection opens, starts the default
\* room's transcription and chunks arrive as the clock advances
NextSeg ==
    \/ Tick(TickMs, MaxTicks * TickMs)
    \/ WsOnOpen(1)
    \/ WsStart(1, "")
    \/ \E chunk \in StreamChunks : GeminiOnMessage("", chunk)

SpecSeg == InitSeg /\ [][NextSeg]_vars

\* the signaling channel alone, with the transcription-started notices
\* recorded: connections open, send well-formed and malformed messages, and
\* close
NextSig ==
    \/ \E p \in PeerIds : WsOnOpen(p)
    \/ \E p \in PeerIds, rid \in RoomArgs : WsJoin(p, rid)
    \/ \E p \in PeerIds, kind \in MalformedKinds : WsMalformed(p, kind)
    \/ \E p \in PeerIds, rid \in RoomArgs : WsStart(p, rid)
    \/ \E p \in PeerIds, rid \in RoomArgs : WsStop(p, rid)
    \/ \E p \in PeerIds : WsOnClose(p)

SpecSig == InitSeg /\ [][NextSig]_vars

\* the signaling channel with sockets that reject sends
NextSend ==
    \/ \E p \in PeerIds : WsOnOpen(p)
    \/ \E p \in PeerIds, rid \in RoomArgs : WsJoin(p, rid)
    \/ \E p \in PeerIds : WsBreak(p)
    \/ \E p \in PeerIds, rid \in RoomArgs : WsStart(p, rid)
    \/ \E p \in PeerIds, rid \in RoomArgs : WsStop(p, rid)
    \/ \E p \in PeerIds : WsOnClose(p)

SpecSend == Init /\ [][NextSend]_vars

\* one room's transcript: a connection starts and stops the default room's
\* transcription while utterances are emitted, transcribed and summarized
LogTexts == {<<"a">>, <<"b">>}
NextLog ==
    \/ Tick(LongTickMs, MaxLogTicks * LongTickMs)
    \/ WsOnOpen(1)
    \/ WsStart(1, "")
    \/ WsStop(1, "")
    \/ \E chunk \in SpecChunks : GeminiOnMessage("", chunk)
    \/ \E i \in 1..Len(pendingT), resp \in LogTexts : TranscribeReturn(i, resp)
    \/ \E i \in 1..Len(pendingS), resp \in SummaryTexts \cup {Failure} :
           SummaryReturn(i, resp)

SpecLog == Init /\ [][NextLog]_vars

\* one member of the default room starts and stops its transcription, with
\* the transcription-started notices recorded, while utterances are emitted,
\* transcribed and summarized
NextStatus ==
    \/ Tick(LongTickMs, MaxLongTicks * LongTickMs)
    \/ WsOnOpen(1)
    \/ WsJoin(1, "")
    \/ WsStart(1, "")
    \/ WsStop(1, "")
    \/ \E chunk \in SpecChunks : GeminiOnMessage("", chunk)
    \/ \E i \in 1..Len(pendingT), resp \in LogTexts : TranscribeReturn(i, resp)
    \/ \E i \in 1..Len(pendingS), resp \in SummaryTexts \cup {Failure} :
           SummaryReturn(i, resp)

SpecStatus == InitSeg /\ [][NextStatus]_vars

\* ======================================================================
\* Properties
\* ======================================================================
\* the Recording Sessions of room r that are created and not ended
OpenSessions(ms, r) == {i \in 1..Len(ms) : ms[i].room_id = r /\ ~ms[i].ended}
\* the peers joined to room r
RoomMembers(ps, r) == {ps[i].id : i \in {j \in 1..Len(ps) : ps[j].roomId = r}}
\* how many messages of ms equal m
CountMsg(ms, m) == Cardinality({i \in 1..Len(ms) : ms[i] = m})
\* the positions of the messages of one type
OfType(ms, type) == {i \in 1..Len(ms) : ms[i].type = type}

\* C1: in every reachable state each room has at most one Recording Session
\* that has been created and not yet ended.
C1_AtMostOneOpenSession ==
    \A r \in RoomIds : Cardinality(OpenSessions(meetings, r)) <= 1
\* a room restarted while the summary of its earlier session is pending
C1_Witness ==
    \E r \in RoomIds :
        /\ Cardinality(OpenSessions(meetings, r)) = 1
        /\ \E i \in 1..Len(meetings) : meetings[i].room_id = r /\ meetings[i].ended
        /\ pendingS # <<>>

\* C2: a start-transcription for a room that is Active returns null, creates
\* no Recording Session, leaves the room's session id and segmenter state
\* unchanged and broadcasts no transcription-started.
C2_StartOnActiveIsNoOp ==
    [][\A r \in RoomIds :
          (rooms[r].transcriptionActive /\ last'.op = "start" /\ last'.room = r)
          => /\ last'.result = 0
             /\ meetings' = meetings
             /\ rooms' = rooms
             /\ sent' = <<>>]_vars
\* a start that returned null for a room whose segmenter holds speech
C2_Witness ==
    /\ last.op = "start"
    /\ last.result = 0
    /\ rooms[last.room].transcriptionActive
    /\ rooms[last.room].audioBuffer # <<>>
    /\ RoomMembers(peers, last.room) # {}

\* C3: once every signaling connection that was opened has been closed and
\* the close handlers have run, no room is left Active.
C3_NoSessionAbandoned ==
    ( /\ \A p \in PeerIds : conn[p] # "open"
      /\ \E p \in PeerIds : conn[p] = "closed"
      /\ \A i \in 1..Len(pendingS) : pendingS[i].origin # "empty" )
    => \A r \in RoomIds : ~rooms[r].transcriptionActive

\* C4: no Transcript Entry is appended to a Recording Session after that
\* session has been marked ended.
C4_EndedSessionImmutable ==
    [][\A i \in 1..Len(meetings) :
          meetings[i].ended => RowsOf(transcriptions', i) = RowsOf(transcriptions, i)]_vars

\* C5: on join, existing-peers lists exactly the peers joined to the joiner's
\* room, and is not sent when that room has no other member.
C5_ExistingPeersRoomScoped ==
    [][last'.op = "join" =>
          LET p == last'.peer
              others == RoomMembers(peers, last'.room) \ {p}
              snaps == OfType(sent', "existing-peers")
          IN  IF others = {} THEN snaps = {}
              ELSE /\ Cardinality(snaps) = 1
                   /\ \A i \in snaps : /\ sent'[i].to = p
                                       /\ SeqToSet(sent'[i].peers) \ {p} = others]_vars

\* C6: peer-joined for a peer joining room R and peer-left for a peer leaving
\* room R go to every other member of R and to no peer of another room.
C6_MembershipEventsRoomScoped ==
    [][/\ last'.op = "join" =>
            LET to == {sent'[i].to : i \in OfType(sent', "peer-joined")} \ {last'.peer}
            IN  /\ RoomMembers(peers, last'.room) \ {last'.peer} \subseteq to
                /\ \A q \in to : PeerRoom(peers, q) = last'.room
       /\ (last'.op = "close" /\ last'.from # "") =>
            LET to == {sent'[i].to : i \in OfType(sent', "peer-left")}
            IN  /\ RoomMembers(peers, last'.from) \ {last'.peer} \subseteq to
                /\ \A q \in to : PeerRoom(peers, q) = last'.from]_vars

\* C7: peer A receives welcome on open; when B joins the room A is joined to,
\* A receives exactly one peer-joined for B and B an existing-peers snapshot
\* containing A; when B disconnects, A receives exactly one peer-left for B
\* and the room has one member less.
C7_TwoPeerScenario ==
    [][/\ last'.op = "open" => sent' = <<Welcome(last'.peer)>>
       /\ \A a \in PeerIds :
            LET b == last'.peer IN
            /\ (last'.op = "join" /\ a # b /\ a \in RoomMembers(peers, last'.room))
               => /\ CountMsg(sent', PeerJoined(a, b)) = 1
                  /\ \E i \in OfType(sent', "existing-peers") :
                        sent'[i].to = b /\ a \in SeqToSet(sent'[i].peers)
            /\ (last'.op = "close" /\ last'.from # "" /\ a # b
                    /\ a \in RoomMembers(peers, last'.from))
               => /\ CountMsg(sent', PeerLeft(a, b)) = 1
                  /\ RoomCount(peers', last'.from) = RoomCount(peers, last'.from) - 1]_vars
\* B, joined to A's room, has disconnected: A was told once and is alone
C7_Witness ==
    /\ last.op = "close"
    /\ last.from # ""
    /\ \E a \in PeerIds :
          /\ RoomMembers(peers, last.from) = {a}
          /\ CountMsg(sent, PeerLeft(a, last.peer)) = 1

\* ---- the recorded stream of SpecSeg --------------------------------------
\* a chunk the detector classifies as non-speech
IsSilence(chunk) == chunk # TextFrame /\ ~Int16Throws(chunk) /\ ~detectSpeech(chunk)
IsSpeech(chunk) == chunk # TextFrame /\ ~Int16Throws(chunk) /\ detectSpeech(chunk)
RECURSIVE SpeechPrefix(_)
\* how many speech chunks the stream starts with
SpeechPrefix(h) ==
    IF h # <<>> /\ IsSpeech(Head(h).chunk) THEN 1 + SpeechPrefix(Tail(h)) ELSE 0
RECURSIVE Concat(_, _)
\* the first n chunks of the stream, one after the other
Concat(h, n) == IF n = 0 THEN <<>> ELSE Concat(h, n - 1) \o h[n].chunk
\* n >= 3 speech chunks followed by silence chunks only
SpeechThenSilence(h) ==
    LET n == SpeechPrefix(h)
    IN  /\ n >= MIN_BUFFER_SIZE
        /\ Len(h) > n
        /\ \A j \in (n + 1)..Len(h) : IsSilence(h[j].chunk)
\* the longest time between the last speech chunk and a later chunk
LongestPause(h) ==
    LET n == SpeechPrefix(h)
    IN  h[Len(h)].t - h[n].t
\* exactly one utterance, the n speech chunks in order, nothing left buffered
OneUtterance(h) ==
    /\ Len(pendingT) = 1
    /\ pendingT[1].roomId = "default"
    /\ pendingT[1].audio = Concat(h, SpeechPrefix(h))
    /\ rooms["default"].audioBuffer = <<>>
    /\ ~rooms["default"].hasSpeech

\* C8, as claimed: n >= 3 speech chunks, then silence chunks of which one
\* arrives at least 500 ms after the last speech chunk: exactly one
\* utterance is emitted, the n speech chunks in arrival order, and the
\* buffer is empty and the accumulating flag false.
C8_EmitsAtPauseOfAtLeast500 ==
    (SpeechThenSilence(hist) /\ LongestPause(hist) >= PAUSE_THRESHOLD_MS)
    => OneUtterance(hist)
\* C8, amended: the same, for a silence chunk that arrives more than 500 ms
\* after the last speech chunk.
C8_EmitsAtPauseOver500 ==
    (SpeechThenSilence(hist) /\ LongestPause(hist) > PAUSE_THRESHOLD_MS)
    => OneUtterance(hist)
\* the stream speech, speech, speech, silence, silence of two different
\* speech chunks, with the pause reached, has been processed
C8_Witness ==
    /\ Len(hist) = 5
    /\ SpeechThenSilence(hist)
    /\ SpeechPrefix(hist) = 3
    /\ hist[1].chunk # hist[2].chunk
    /\ LongestPause(hist) > PAUSE_THRESHOLD_MS
    /\ Len(pendingT) = 1

\* C9: a non-speech chunk that arrives while the buffer holds fewer than 3
\* chunks, or while the time since the last speech chunk has not exceeded
\* the pause threshold, emits nothing and leaves the buffer, the
\* accumulating flag and the last-speech timestamp unchanged.
C9_HoldLeavesSegmenterUnchanged ==
    [][\A r \in RoomIds :
          ( /\ last'.op = "audio"
            /\ last'.room = r
            /\ rooms[r].transcriptionActive
            /\ IsSilence(last'.chunk)
            /\ \/ Len(rooms[r].audioBuffer) < MIN_BUFFER_SIZE
               \/ now - rooms[r].lastSpeechTime <= PAUSE_THRESHOLD_MS )
          => /\ rooms' = rooms
             /\ pendingT' = pendingT
             /\ last'.result = 0]_vars
\* silence arrived after the pause with two chunks buffered: they are kept
C9_Witness ==
    /\ last.op = "audio"
    /\ IsSilence(last.chunk)
    /\ rooms[last.room].transcriptionActive
    /\ rooms[last.room].hasSpeech
    /\ Len(rooms[last.room].audioBuffer) = 2
    /\ now - rooms[last.room].lastSpeechTime > PAUSE_THRESHOLD_MS
    /\ pendingT = <<>>

SentOnceTo(ms, members, type, text) ==
    /\ Len(ms) = Cardinality(members)
    /\ \A q \in members : CountMsg(ms, Msg(q, type, 0, <<>>, 0, text)) = 1

\* C11: a stop, or a close that empties the room, of a session with no
\* Transcript Entry ends the session and sets the room Inactive, requests no
\* summary and saves none; the stop reports stopped = true at once and the
\* transcription-stopped it broadcasts carries no summary.
C11_EmptySessionSkipsSummary ==
    [][\A r \in RoomIds :
          ( /\ last'.op \in {"stop", "close"}
            /\ last'.room = r
            /\ last'.result # 0
            /\ RowsOf(transcriptions, rooms[r].meetingId) = <<>> )
          => /\ pendingS' = pendingS
             /\ summaries' = summaries
             /\ meetings'[rooms[r].meetingId].ended
             /\ ~rooms'[r].transcriptionActive
             /\ last'.op = "stop"
                  => /\ last'.result = 1
                     /\ SentOnceTo(sent', RoomMembers(peers, r),
                                   "transcription-stopped", NoText)]_vars
\* a stop has ended a session without entries and told the room's members
C11_Witness ==
    /\ last.op = "stop"
    /\ last.result = 1
    /\ rooms[last.room].meetingId # 0
    /\ meetings[rooms[last.room].meetingId].ended
    /\ RowsOf(transcriptions, rooms[last.room].meetingId) = <<>>
    /\ OfType(sent, "transcription-stopped") # {}
    /\ pendingS = <<>>
    /\ summaries = <<>>

\* C12: when the summary request of a stop fails or is answered without a
\* summary, the step that resumes the stop changes no room and no meeting and
\* saves no summary, the session stays ended and is not the room's Active
\* one, and transcription-stopped without a summary goes once to every
\* member of the room.
C12_SummaryFailureNotPropagated ==
    [][( /\ last'.op = "summarized"
         /\ last'.from = "stop"
         /\ last'.resp \in {Failure, NoText} )
       => /\ rooms' = rooms
          /\ meetings' = meetings
          /\ summaries' = summaries
          /\ last'.text = NoText
          /\ SentOnceTo(sent', RoomMembers(peers, last'.room),
                        "transcription-stopped", NoText)
          /\ \A i \in 1..Len(pendingS) :
                ( /\ pendingS' = RemoveAt(pendingS, i)
                  /\ pendingS[i].roomId = last'.room
                  /\ pendingS[i].origin = "stop" )
                => /\ meetings'[pendingS[i].meetingId].ended
                   /\ ~( /\ rooms'[last'.room].transcriptionActive
                         /\ rooms'[last'.room].meetingId = pendingS[i].meetingId )
                   /\ ~HasSummary(summaries', pendingS[i].meetingId)]_vars
\* the fetch of a stop's summary failed and the room's members were told
C12_Witness ==
    /\ last.op = "summarized"
    /\ last.from = "stop"
    /\ last.resp = Failure
    /\ OfType(sent, "transcription-stopped") # {}
    /\ ~rooms[last.room].transcriptionActive
    /\ summaries = <<>>

\* C13: when the transcription gateway fails or answers with an empty or
\* whitespace-only text, no Transcript Entry is appended, nothing is sent and
\* no room, meeting or summary changes.
C13_EmptyTranscriptionDiscarded ==
    [][( /\ last'.op = "transcribed"
         /\ (last'.resp = Failure \/ Trim(last'.resp) = NoText) )
       => /\ transcriptions' = transcriptions
          /\ sent' = <<>>
          /\ rooms' = rooms
          /\ meetings' = meetings
          /\ summaries' = summaries]_vars
\* a whitespace-only answer was discarded in a room that has members
C13_Witness ==
    /\ last.op = "transcribed"
    /\ last.resp = <<" ">>
    /\ last.result = 0
    /\ RoomMembers(peers, last.room) # {}
    /\ rooms[last.room].transcriptionActive
    /\ transcriptions = <<>>

\* C14: when the transcription gateway returns a non-empty text for an
\* utterance of room R, exactly one Transcript Entry with that text is
\* appended, and a transcription event with the text goes once to every peer
\* joined to R and to no other peer.
C14_TranscriptionSavedAndRoomScoped ==
    [][\A r \in RoomIds :
          ( /\ last'.op = "transcribed"
            /\ last'.room = r
            /\ last'.resp # Failure
            /\ Trim(last'.resp) # NoText )
          => /\ Len(transcriptions') = Len(transcriptions) + 1
             /\ SubSeq(transcriptions', 1, Len(transcriptions)) = transcriptions
             /\ transcriptions'[Len(transcriptions')].text = Trim(last'.resp)
             /\ transcriptions'[Len(transcriptions')].meeting_id = rooms[r].meetingId
             /\ SentOnceTo(sent', RoomMembers(peers, r),
                           "transcription", Trim(last'.resp))]_vars
\* an entry was saved while one peer was joined to the room and another to a
\* different room: only the first was sent the text
C14_Witness ==
    /\ last.op = "transcribed"
    /\ last.result = 1
    /\ transcriptions # <<>>
    /\ \E a, b \in PeerIds :
          /\ PeerRoom(peers, a) = last.room
          /\ PeerRoom(peers, b) \notin {"", last.room}
          /\ \A i \in 1..Len(sent) : sent[i].to = a /\ sent[i].text = last.text
          /\ Len(sent) = 1

\* C17: a stop-transcription for a room that is not Active returns
\* stopped = false, ends no meeting, requests no summary, changes no room
\* and sends nothing.
C17_StopOnInactiveIsNoOp ==
    [][\A r \in RoomIds :
          ( /\ last'.op = "stop"
            /\ last'.room = r
            /\ ~(rooms[r].exists /\ rooms[r].transcriptionActive) )
          => /\ last'.result = 0
             /\ rooms' = rooms
             /\ meetings' = meetings
             /\ pendingS' = pendingS
             /\ summaries' = summaries
             /\ sent' = <<>>]_vars
\* a second stop of a room that was stopped, with a member to tell
C17_Witness ==
    /\ last.op = "stop"
    /\ last.result = 0
    /\ rooms[last.room].exists
    /\ rooms[last.room].meetingId # 0
    /\ ~rooms[last.room].transcriptionActive
    /\ RoomMembers(peers, last.room) # {}

\* ---- the registry and the signaling channel (SpecSig) ---------------------
\* the connections the registry holds
Registered(ps) == {q \in PeerIds : HasPeer(ps, q)}

C16_RoomFixedForConnection ==
    [][\A q \in Registered(peers) \cap Registered(peers') :
          PeerRoom(peers', q) = PeerRoom(peers, q)]_vars

\* C18: a malformed inbound message leaves the registry and every room
\* unchanged, sends nothing and leaves the connection open.
C18_MalformedDropped ==
    [][last'.op = "malformed"
       => /\ peers' = peers
          /\ rooms' = rooms
          /\ sent' = <<>>
          /\ conn'[last'.peer] = "open"]_vars

\* C20: every peer joined to a room whose transcription is Active has been
\* sent transcription-started for the room's current session.
C20_EveryMemberToldStarted ==
    \A r \in RoomIds : \A q \in RoomMembers(peers, r) :
        rooms[r].transcriptionActive => <<q, rooms[r].meetingId>> \in told

\* ---- the transcript of one session (SpecLog) ------------------------------
\* the texts of a session's entries in the order they were appended
AppendOrder(ts, meetingId) ==
    LET rows == RowsOf(ts, meetingId) IN [i \in 1..Len(rows) |-> rows[i].text]

\* C19: the chronological fetch of a session's entries returns them in the
\* order they were appended, whatever list the query may return.
C19_FetchReturnsAppendOrder ==
    \A m \in 1..Len(meetings) :
        getTranscriptions(transcriptions, m) = {AppendOrder(transcriptions, m)}

C22_StartStopBroadcastRoomScoped ==
    [][\A r \in RoomIds :
          /\ (last'.op = "start" /\ last'.room = r /\ last'.result # 0)
             => /\ last'.result = Len(meetings')
                /\ Len(sent') = Cardinality(RoomMembers(peers, r))
                /\ \A q \in RoomMembers(peers, r) :
                      CountMsg(sent', TranscriptionStarted(q, last'.result)) = 1
          /\ (last'.op = "stop" /\ last'.room = r /\ last'.result = 1)
             => SentOnceTo(sent', RoomMembers(peers, r), "transcription-stopped", NoText)
          /\ (last'.op = "stop" /\ last'.room = r /\ last'.result = 2)
             => sent' = <<>>
          /\ (last'.op = "summarized" /\ last'.from = "stop" /\ last'.room = r)
             => SentOnceTo(sent', RoomMembers(peers, r),
                           "transcription-stopped", last'.text)]_vars
\* a summary came back for a stop while one peer was joined to the room and
\* another to a different room: only the first was told
C22_Witness ==
    /\ last.op = "summarized"
    /\ last.from = "stop"
    /\ last.result = 1
    /\ Len(sent) = 1
    /\ \E a, b \in PeerIds :
          /\ PeerRoom(peers, a) = last.room
          /\ PeerRoom(peers, b) \notin {"", last.room}
          /\ sent[1] = TranscriptionStopped(a, last.text)

\* C25: a chunk, a start, a stop and the continuations of a transcription
\* and of a summary for one room leave every other room's record and every
\* other room's meetings as they are.
C25_RoomsIndependent ==
    [][\A r \in RoomIds :
          ( /\ last'.op \in {"audio", "start", "stop", "transcribed", "summarized"}
            /\ last'.room # r )
          => /\ rooms'[r] = rooms[r]
             /\ \A i \in 1..Len(meetings) :
                   meetings[i].room_id = r => meetings'[i] = meetings[i]]_vars
\* a room was stopped while another room was Active with speech buffered
C25_Witness ==
    /\ last.op = "stop"
    /\ last.result # 0
    /\ \E r \in RoomIds :
          /\ r # last.room
          /\ rooms[r].transcriptionActive
          /\ rooms[r].audioBuffer # <<>>
          /\ ~meetings[rooms[r].meetingId].ended

\* C27: a close leaves every call in flight in flight, and whenever a call
\* comes back, also after the last member has closed, a non-empty text is
\* saved as a Transcript Entry and a summary is saved for its meeting.
C27_CloseDoesNotCancelCalls ==
    [][/\ last'.op = "close"
          => /\ pendingT' = pendingT
             /\ Len(pendingS') >= Len(pendingS)
             /\ SubSeq(pendingS', 1, Len(pendingS)) = pendingS
       /\ ( /\ last'.op = "transcribed"
            /\ last'.resp # Failure
            /\ Trim(last'.resp) # NoText )
          => /\ Len(transcriptions') = Len(transcriptions) + 1
             /\ transcriptions'[Len(transcriptions')].text = Trim(last'.resp)
       /\ ( /\ last'.op = "summarized"
            /\ last'.resp \notin {Failure, NoText} )
          => \E i \in 1..Len(summaries') : summaries'[i].text = last'.resp]_vars
\* an entry was saved from a call that came back after every connection had
\* closed
C27_Witness ==
    /\ last.op = "transcribed"
    /\ last.result = 1
    /\ peers = <<>>
    /\ \A q \in PeerIds : conn[q] = "closed"
    /\ ~rooms[last.room].transcriptionActive
    /\ transcriptions # <<>>

\* C29: an entry is appended to the session that was Active when its
\* utterance was emitted.
C29_EntryGoesToEmittingSession ==
    [][\A i \in 1..Len(pendingT) :
          ( /\ last'.op = "transcribed"
            /\ last'.result = 1
            /\ pendingT' = RemoveAt(pendingT, i) )
          => transcriptions'[Len(transcriptions')].meeting_id = pendingT[i].meetingId]_vars

\* C30: while the summary of a session is being requested, the text sent
\* holds every entry saved for that session.
C30_SummaryCoversAllEntries ==
    \A i \in 1..Len(pendingS) :
        pendingS[i].transcript \in
            {JoinTexts(f) : f \in getTranscriptions(transcriptions, pendingS[i].meetingId)}

\* ---- the detector and the segmenter on silence (SpecSeg) ------------------
\* a chunk whose samples are all zero
AllZero(chunk) == chunk # <<>> /\ \A i \in 1..Len(chunk) : chunk[i] = 0

\* C23: a zero-length chunk for an Active room leaves the room's segmenter
\* as it is and emits nothing.
C23_EmptyChunkIgnored ==
    [][(last'.op = "audio" /\ last'.chunk = Empty)
       => /\ rooms' = rooms
          /\ pendingT' = pendingT]_vars

\* C24: a non-speech chunk for an Active room whose buffer is empty and
\* whose accumulating flag is false changes no room, emits nothing and sends
\* nothing.
C24_SilenceBeforeSpeechIsNoOp ==
    [][\A r \in RoomIds :
          ( /\ last'.op = "audio"
            /\ last'.room = r
            /\ rooms[r].transcriptionActive
            /\ IsSilence(last'.chunk)
            /\ rooms[r].audioBuffer = <<>>
            /\ ~rooms[r].hasSpeech )
          => /\ rooms' = rooms
             /\ pendingT' = pendingT
             /\ last'.result = 0
             /\ sent' = <<>>]_vars
\* silence arrived, more than the pause after the start, before any speech
C24_Witness ==
    /\ last.op = "audio"
    /\ last.chunk = Zero
    /\ rooms[last.room].transcriptionActive
    /\ rooms[last.room].audioBuffer = <<>>
    /\ ~rooms[last.room].hasSpeech
    /\ rooms[last.room].lastSpeechTime = 0
    /\ now > Epoch + PAUSE_THRESHOLD_MS
    /\ pendingT = <<>>

\* C28: a chunk of all-zero samples and a chunk without samples pass the
\* detector without an error and as non-speech: the handler does not buffer
\* them and does not move lastSpeechTime.
C28_ZeroAndEmptyAreNonSpeech ==
    [][\A r \in RoomIds :
          ( /\ last'.op = "audio"
            /\ last'.room = r
            /\ rooms[r].transcriptionActive
            /\ (last'.chunk = Empty \/ AllZero(last'.chunk)) )
          => /\ ~Int16Throws(last'.chunk)
             /\ ~detectSpeech(last'.chunk)
             /\ Len(rooms'[r].audioBuffer) <= Len(rooms[r].audioBuffer)
             /\ rooms'[r].lastSpeechTime = rooms[r].lastSpeechTime]_vars
\* both kinds of chunk were processed while speech was buffered
C28_Witness ==
    /\ last.op = "audio"
    /\ last.chunk = Empty
    /\ rooms[last.room].hasSpeech
    /\ \E i \in 1..Len(hist) : hist[i].chunk = Zero
    /\ \E i \in 1..Len(hist) : detectSpeech(hist[i].chunk)

RECURSIVE SpeechOf(_)
\* the speech chunks of a recorded stream, one after the other
SpeechOf(h) ==
    IF h = <<>> THEN <<>>
    ELSE (IF IsSpeech(Head(h).chunk) THEN Head(h).chunk ELSE <<>>) \o SpeechOf(Tail(h))
RECURSIVE EmittedAudio(_)
\* the audio of the emitted utterances, one after the other
EmittedAudio(calls) ==
    IF calls = <<>> THEN <<>> ELSE Head(calls).audio \o EmittedAudio(Tail(calls))

\* C31: the step that emits an utterance takes at least 3 chunks, all of
\* them speech, in arrival order, and leaves the buffer empty and the flag
\* false; the utterances emitted so far followed by the buffer are the
\* speech chunks received, each once and in arrival order.
C31_EmissionAtomic ==
    [][/\ EmittedAudio(pendingT') \o CombineAudio(rooms'["default"].audioBuffer)
             = SpeechOf(hist')
       /\ (last'.op = "audio" /\ last'.result = 1)
          => LET buf == rooms[last'.room].audioBuffer
             IN  /\ Len(buf) >= MIN_BUFFER_SIZE
                 /\ \A i \in 1..Len(buf) : IsSpeech(buf[i])
                 /\ Len(pendingT') = Len(pendingT) + 1
                 /\ pendingT'[Len(pendingT')].audio = CombineAudio(buf)
                 /\ rooms'[last'.room].audioBuffer = <<>>
                 /\ ~rooms'[last'.room].hasSpeech]_vars
\* an utterance is in flight and speech that came after it is buffered
C31_Witness ==
    /\ Len(pendingT) = 1
    /\ rooms["default"].audioBuffer # <<>>
    /\ rooms["default"].hasSpeech
    /\ last.op = "audio"
    /\ EmittedAudio(pendingT) \o CombineAudio(rooms["default"].audioBuffer) = SpeechOf(hist)

\* C32: a successful start leaves the room's buffer empty and its flag
\* false, a buffer changes otherwise only by a chunk that arrives while the
\* room is Active (the chunk is appended, or the buffer is emitted), and an
\* emitted utterance is the buffer of that moment: no utterance holds a
\* chunk received before its session was started.
C32_NoAudioAcrossSessions ==
    [][\A r \in RoomIds :
          /\ (last'.op = "start" /\ last'.room = r /\ last'.result # 0)
             => /\ rooms'[r].audioBuffer = <<>>
                /\ ~rooms'[r].hasSpeech
                /\ rooms'[r].lastSpeechTime = 0
          /\ ( /\ rooms'[r].audioBuffer # rooms[r].audioBuffer
               /\ ~(last'.op = "start" /\ last'.room = r /\ last'.result # 0) )
             => /\ last'.op = "audio"
                /\ last'.room = r
                /\ rooms[r].transcriptionActive
                /\ \/ rooms'[r].audioBuffer = Append(rooms[r].audioBuffer, last'.chunk)
                   \/ rooms'[r].audioBuffer = <<>>
          /\ (last'.op = "audio" /\ last'.room = r /\ last'.result = 1)
             => pendingT'[Len(pendingT')].audio = CombineAudio(rooms[r].audioBuffer)]_vars
\* the second session of a room has emitted an utterance of exactly the
\* chunks buffered since its start
C32_Witness ==
    /\ last.op = "audio"
    /\ last.result = 1
    /\ rooms[last.room].meetingId = 2
    /\ meetings[1].room_id = last.room
    /\ meetings[1].ended
    /\ pendingT # <<>>
    /\ pendingT[Len(pendingT)].meetingId = 2

\* C33: a chunk for a room that does not exist or is not Active changes
\* nothing: no room, no table, no call in flight, and nothing is sent.
C33_ChunkForInactiveRoomIsNoOp ==
    [][\A r \in RoomIds :
          ( /\ last'.op = "audio"
            /\ last'.room = r
            /\ ~(rooms[r].exists /\ rooms[r].transcriptionActive) )
          => /\ rooms' = rooms
             /\ meetings' = meetings
             /\ transcriptions' = transcriptions
             /\ summaries' = summaries
             /\ pendingT' = pendingT
             /\ pendingS' = pendingS
             /\ peers' = peers
             /\ last'.result = 0
             /\ sent' = <<>>]_vars
\* silence arrived for a stopped room that holds enough speech, the pause
\* being over
C33_Witness ==
    /\ last.op = "audio"
    /\ last.chunk = Zero
    /\ rooms[last.room].exists
    /\ ~rooms[last.room].transcriptionActive
    /\ rooms[last.room].hasSpeech
    /\ Len(rooms[last.room].audioBuffer) >= MIN_BUFFER_SIZE
    /\ now - rooms[last.room].lastSpeechTime > PAUSE_THRESHOLD_MS
    /\ pendingT = <<>>

\* C34: a successful start inserts one meeting whose id is new, makes it the
\* room's session, and leaves every earlier meeting, its end marker
\* included, as it was.
C34_RestartCreatesNewSession ==
    [][\A r \in RoomIds :
          (last'.op = "start" /\ last'.room = r /\ last'.result # 0)
          => /\ Len(meetings') = Len(meetings) + 1
             /\ \A i \in 1..Len(meetings) : meetings'[i] = meetings[i]
             /\ last'.result = Len(meetings')
             /\ last'.result \notin 1..Len(meetings)
             /\ rooms'[r].meetingId = last'.result
             /\ rooms'[r].meetingId # rooms[r].meetingId
             /\ meetings'[last'.result].room_id = r
             /\ ~meetings'[last'.result].ended]_vars
\* a room was started again after its first session had ended
C34_Witness ==
    /\ last.op = "start"
    /\ last.result = 2
    /\ meetings[1].room_id = last.room
    /\ meetings[1].ended
    /\ meetings[1].participant_count = 1
    /\ ~meetings[2].ended
    /\ rooms[last.room].meetingId = 2

\* C39: for every room the accumulating flag is true exactly when the
\* buffer is not empty.
C39_FlagIffBufferNonEmpty ==
    \A r \in RoomIds : rooms[r].hasSpeech <=> rooms[r].audioBuffer # <<>>
\* an utterance was emitted: the buffer is empty and the flag false; and a
\* stopped room keeps both its buffer and its flag
C39_Witness ==
    /\ last.op = "audio"
    /\ last.result = 1
    /\ rooms[last.room].audioBuffer = <<>>
    /\ ~rooms[last.room].hasSpeech
    /\ pendingT # <<>>

\* C40: a start-transcription or stop-transcription from a connection that
\* is not joined to the room it names leaves that room's Active state and
\* the meetings as they are.
C40_OnlyMembersStartOrStop ==
    [][\A r \in RoomIds :
          ( /\ last'.op \in {"start", "stop"}
            /\ last'.room = r
            /\ last'.from # r )
          => /\ rooms'[r].transcriptionActive = rooms[r].transcriptionActive
             /\ meetings' = meetings]_vars

\* C38: a stop or a last close ends a session only if it was not ended
\* before, an ended meeting row never changes again, a summary is requested
\* only by the step that ends the session (so at most once per session),
\* and the summaries hold at most one row per session.
C38_NoDuplicateSaves ==
    [][/\ \A r \in RoomIds :
             ( /\ last'.room = r
               /\ \/ last'.op = "stop" /\ last'.result # 0
                  \/ last'.op = "close" /\ last'.result = 1 )
             => /\ rooms[r].meetingId \in 1..Len(meetings)
                /\ ~meetings[rooms[r].meetingId].ended
                /\ meetings'[rooms[r].meetingId].ended
       /\ \A m \in 1..Len(meetings) : meetings[m].ended => meetings'[m] = meetings[m]
       /\ Len(pendingS') > Len(pendingS)
          => /\ Len(pendingS') = Len(pendingS) + 1
             /\ last'.op \in {"stop", "close"}
             /\ pendingS'[Len(pendingS')].meetingId = rooms[last'.room].meetingId
             /\ ~meetings[rooms[last'.room].meetingId].ended
       /\ \A i, j \in 1..Len(pendingS') :
             pendingS'[i].meetingId = pendingS'[j].meetingId => i = j
       /\ \A i \in 1..Len(pendingS'), j \in 1..Len(summaries') :
             pendingS'[i].meetingId # summaries'[j].meeting_id
       /\ \A i, j \in 1..Len(summaries') :
             summaries'[i].meeting_id = summaries'[j].meeting_id => i = j]_vars
\* a second stop-transcription arrived for a session that is ended and has
\* its summary row
C38_Witness ==
    /\ last.op = "stop"
    /\ last.result = 0
    /\ rooms[last.room].meetingId \in 1..Len(meetings)
    /\ meetings[rooms[last.room].meetingId].ended
    /\ HasSummary(summaries, rooms[last.room].meetingId)
    /\ pendingS = <<>>

\* C35: while a gateway call is in flight, whichever room it belongs to,
\* every open connection can still join and close, a room that is not
\* Active can be started and an Active one stopped, and an Active room
\* takes audio chunks (buffering speech, emitting a further utterance):
\* each of these handlers is enabled and makes its state change.
C35_HungCallStallsOnlyItsHandler ==
    (pendingT # <<>> \/ pendingS # <<>>)
    => /\ \A p \in PeerIds, rid \in RoomArgs :
             conn[p] = "open"
             => /\ ENABLED (WsJoin(p, rid) /\ PeerRoom(peers', p) = OrDefault(rid))
                /\ ENABLED (WsOnClose(p) /\ conn'[p] = "closed" /\ ~HasPeer(peers', p))
                /\ (~rooms[OrDefault(rid)].transcriptionActive /\ Len(meetings) < MaxMeetings)
                   => ENABLED ( /\ WsStart(p, rid)
                                /\ rooms'[OrDefault(rid)].transcriptionActive
                                /\ Len(meetings') = Len(meetings) + 1 )
                /\ CanStop(rooms[OrDefault(rid)])
                   => ENABLED ( /\ WsStop(p, rid)
                                /\ ~rooms'[OrDefault(rid)].transcriptionActive
                                /\ meetings'[rooms[OrDefault(rid)].meetingId].ended )
       /\ \A rid \in RoomArgs :
             LET room == rooms[OrDefault(rid)]
             IN  /\ (room.transcriptionActive /\ Len(room.audioBuffer) < MaxBuffer)
                    => ENABLED ( /\ GeminiOnMessage(rid, Loud1)
                                 /\ rooms'[OrDefault(rid)].audioBuffer
                                        = Append(room.audioBuffer, Loud1) )
                 /\ ( /\ ChunkBranch(room, Zero, now) = "emit"
                      /\ Len(pendingT) < MaxPending )
                    => ENABLED ( /\ GeminiOnMessage(rid, Zero)
                                 /\ Len(pendingT') = Len(pendingT) + 1 )
\* with the transcription call of room "default" still in flight, room "r1"
\* was started
C35_Witness ==
    /\ pendingT # <<>>
    /\ pendingT[1].roomId = "default"
    /\ last.op = "start"
    /\ last.room = "r1"
    /\ last.result # 0
    /\ rooms["r1"].transcriptionActive

\* C37: a transcript entry is persisted (and its transcription event
\* broadcast) only when no utterance finalized earlier in the same session
\* is still waiting for its gateway call: entries are persisted in the
\* order in which their utterances were finalized.
C37_EntriesInFinalizationOrder ==
    [][(last'.op = "transcribed" /\ last'.result = 1)
       => \E i \in 1..Len(pendingT) :
             /\ pendingT' = RemoveAt(pendingT, i)
             /\ \A j \in 1..(i - 1) : pendingT[j].meetingId # pendingT[i].meetingId]_vars

\* C36: when the stop handler of a session sends transcription-stopped to a
\* member, that member has not been sent the transcription-started of a
\* later session: status events reach a member in the order of the room's
\* transitions.
C36_StatusEventsInTransitionOrder ==
    [][(last'.op = "summarized" /\ last'.from = "stop")
       => \E i \in 1..Len(pendingS) :
             /\ pendingS' = RemoveAt(pendingS, i)
             /\ \A k \in 1..Len(sent') :
                   sent'[k].type = "transcription-stopped"
                   => \A m \in 1..Len(meetings) :
                         <<sent'[k].to, m>> \in told => m <= pendingS[i].meetingId]_vars

====
